---- MODULE Spec2Model ----
(***************************************************************************)
(* KERMIT (benhg/kermit): RF background level collection.                  *)
(*                                                                         *)
(* A model of src/src/collect_data.py (the acquisition driver, the GGA     *)
(* decoder, the GPS set-up), src/src/utils.py (Interval and the S-unit     *)
(* scales), src/kermit_sdr/utils.py (GpsReadQuality, GpsResponse) and      *)
(* src/src/generate_map.py (the deduplication of the collected rows).      *)
(*                                                                         *)
(* Numbers.  Python floats are modelled as exact decimal fractions         *)
(* [n |-> numerator, k |-> number of decimals], i.e. n / 10^k, and         *)
(* compared by cross multiplication.  Text fields of a serial line are     *)
(* sequences of one-character strings, so that slicing, int() and float()  *)
(* are computed on the characters as the code computes them.               *)
(***************************************************************************)
EXTENDS Integers, Sequences, FiniteSets, TLC

VARIABLES
    \* ---- the acquisition driver: main() and setup_gps_source() ----
    pc,             \* position in main() / setup_gps_source()
    status,         \* "running" | "crashed" (uncaught exception) | "exited" (sys.exit)
    err,            \* the uncaught exception ("none" if there is none)
    exit_code,      \* the argument of sys.exit (-1 if it was not called)
    platform,       \* platform.system()
    port_list,      \* setup_gps_source: list(list_ports.comports())
    inp,            \* setup_gps_source: what the operator typed at the prompt
    prompted,       \* setup_gps_source: input() was called
    port,           \* setup_gps_source: local `port` (<<>> while unbound)
    serial_obj,     \* the serial.Serial opened by set-up (<<>> if none was opened)
    poll_i,         \* setup_gps_source: polling iterations started
    setup_sleeps,   \* setup_gps_source: time.sleep(1) calls made
    gps_stream,     \* main: what setup_gps_source returned (<<>> is None)
    serial_reads,   \* history: readline() calls made since set-up returned
    skipped,        \* get_gga_signal_from_serial: non-target lines skipped in this call
    gps_read,       \* main: local gps_read (<<>> is None, else <<GpsResponse>>)
    file_exists,    \* init_output_file: os.path.exists(expanded_out_file)
    signal_source,  \* config.SIGNAL_SOURCE
    announce_signal, \* config.ANNOUNCE_SIGNAL
    sdr,            \* "none" | "open" | "closed": the RtlSdr handle
    atexit_reg,     \* atexit.register(sdr.close) has been called
    db,             \* main: signal_strength_db of the current tick
    s_unit,         \* main: signal_strength_s_unit of the current tick
    rows,           \* the rows appended to the CSV file, in order
    fixes,          \* history: the gps_read each row was written from
    i,              \* main: iteration counter
    spoken,         \* the texts handed to speak_func, in order
    \* ---- get_s_unit_from_db applied to one value ----
    cl_scale, cl_val, cl_label,
    \* ---- GpsResponse.is_valid_read applied to one response ----
    fx, fx_valid,
    \* ---- get_gga_signal_from_serial applied to one candidate line ----
    rt_lat, rt_lng, dc_line, dc_out,
    \* ---- generate_map.main: the deduplication of the collected rows ----
    dd_step,        \* DEDUPLICATION_STEP, in 1e-5 degrees
    dd_df,          \* df: the rows to deduplicate (latitude, longitude, level)
    dd_bins,        \* df["lat_bin"], df["lon_bin"] of the last deduplication
    dd_out,         \* summary_points of the last deduplication (<<>> before the first)
    dd_pass,        \* deduplications made
    dd_err          \* the uncaught exception ("none" if there is none)

mainVars == <<pc, status, err, exit_code, platform, port_list, inp, prompted, port,
              serial_obj, poll_i,
              setup_sleeps, gps_stream, serial_reads, skipped, gps_read, file_exists,
              signal_source, announce_signal, sdr, atexit_reg, db, s_unit, rows, fixes, i,
              spoken>>
scaleVars == <<cl_scale, cl_val, cl_label>>
fixVars == <<fx, fx_valid>>
decVars == <<rt_lat, rt_lng, dc_line, dc_out>>
dedupVars == <<dd_step, dd_df, dd_bins, dd_out, dd_pass, dd_err>>
vars == <<mainVars, scaleVars, fixVars, decVars, dedupVars>>

(***************************************************************************)
(* Python's None, and an optional value: <<>> is None, <<v>> is v.         *)
(***************************************************************************)
None == <<>>
Some(v) == <<v>>

(***************************************************************************)
(* Decimal fractions.                                                      *)
(***************************************************************************)
RECURSIVE Pow10(_)
Pow10(k) == IF k = 0 THEN 1 ELSE 10 * Pow10(k - 1)

Dec(n, k) == [n |-> n, k |-> k]
\* a < m for a decimal fraction a and an integer m
DecLtInt(a, m) == a.n < m * Pow10(a.k)
\* float("-inf"): the one float of the model that is no decimal fraction
NEG_INF == [n |-> -1, k |-> -1]
IsNegInf(v) == v.k < 0

(***************************************************************************)
(* Text.  A str is a sequence of one-character strings.                    *)
(***************************************************************************)
DigitChars == <<"0", "1", "2", "3", "4", "5", "6", "7", "8", "9">>
IsDigit(c) == \E d \in 1..10 : DigitChars[d] = c
DigitVal(c) == (CHOOSE d \in 1..10 : DigitChars[d] = c) - 1

\* s[a:b] of Python, for 0 <= a <= b
Slice(s, a, b) == SubSeq(s, a + 1, IF b < Len(s) THEN b ELSE Len(s))
\* s[a:] of Python
SliceFrom(s, a) == SubSeq(s, a + 1, Len(s))

\* the value of a sequence of digits
RECURSIVE DigitsVal(_)
DigitsVal(s) ==
    IF Len(s) = 0 THEN 0
    ELSE 10 * DigitsVal(SubSeq(s, 1, Len(s) - 1)) + DigitVal(s[Len(s)])

AllDigits(s) == \A j \in 1..Len(s) : IsDigit(s[j])
HasSign(s) == Len(s) > 0 /\ s[1] \in {"+", "-"}
Unsigned(s) == IF HasSign(s) THEN Tail(s) ELSE s
SignOf(s) == IF Len(s) > 0 /\ s[1] = "-" THEN -1 ELSE 1

\* int(s) succeeds: an optional sign and at least one digit
\* (white space, underscores and other bases are outside the model's alphabet)
IntSyntax(s) == Len(Unsigned(s)) > 0 /\ AllDigits(Unsigned(s))
IntOf(s) == SignOf(s) * DigitsVal(Unsigned(s))

\* float(s) succeeds: an optional sign, digits with at most one ".", at least one
\* digit (exponents, "inf" and "nan" are outside the model's alphabet)
DotAt(s) == IF \E j \in 1..Len(s) : s[j] = "."
            THEN CHOOSE j \in 1..Len(s) : s[j] = "." /\ \A h \in 1..(j - 1) : s[h] # "."
            ELSE 0
IntPart(s) == IF DotAt(s) = 0 THEN s ELSE SubSeq(s, 1, DotAt(s) - 1)
FracPart(s) == IF DotAt(s) = 0 THEN <<>> ELSE SubSeq(s, DotAt(s) + 1, Len(s))
FloatSyntax(s) ==
    LET u == Unsigned(s) IN
    /\ AllDigits(IntPart(u))
    /\ AllDigits(FracPart(u))
    /\ Len(IntPart(u)) + Len(FracPart(u)) > 0
FloatOf(s) ==
    LET u == Unsigned(s) IN
    Dec(SignOf(s) * (DigitsVal(IntPart(u)) * Pow10(Len(FracPart(u))) + DigitsVal(FracPart(u))),
        Len(FracPart(u)))

\* "GPGGA" in line: the five characters occur, in a row, in some field
GPGGA == <<"G", "P", "G", "G", "A">>
Contains(s, sub) ==
    \E j \in 1..(Len(s) - Len(sub) + 1) : SubSeq(s, j, j + Len(sub) - 1) = sub
is_gga_line(line) == \E f \in 1..Len(line) : Contains(line[f], GPGGA)

(***************************************************************************)
(* kermit_sdr/utils.py: GpsReadQuality and GpsResponse.                    *)
(***************************************************************************)
INVALID == 0
SIMULATED == 8
\* GpsReadQuality(n) succeeds: n is the value of a member of the enum
IsGpsReadQuality(n) == n \in INVALID..SIMULATED

\* lat and lng are the "%.5f" texts of the decoder, held as the integer
\* number of 1e-5 degrees they denote (the constructor's default is 0)
GpsResponse(timestamp, quality, sat_count, altitude, error) ==
    [timestamp |-> timestamp, lat |-> 0, lng |-> 0, quality |-> quality,
     sat_count |-> sat_count, altitude |-> altitude, error |-> error]

\* GpsResponse.is_valid_read
DOP_LIMIT == 20
MIN_SATS == 3
\* (a variant that accepts a dilution of exactly 20)
is_valid_read_le(self) ==
    /\ self.quality # INVALID
    /\ self.error.n <= DOP_LIMIT * Pow10(self.error.k)
    /\ self.sat_count >= MIN_SATS
is_valid_read(self) ==
    /\ self.quality # INVALID
    /\ DecLtInt(self.error, DOP_LIMIT)
    /\ self.sat_count >= MIN_SATS

(***************************************************************************)
(* collect_data.py: get_gga_signal_from_serial, per line read.             *)
(*                                                                         *)
(* A line is line.split(","): the sequence of its fields.  The outcome of  *)
(* handling one line is "skip" (not a GPGGA line: the loop reads the next  *)
(* line), "none" (return None), "fix" (return res) or "raise" (an          *)
(* exception leaves the function).                                         *)
(***************************************************************************)
Out(kind, exc, res) == [kind |-> kind, exc |-> exc, res |-> res]
Skip == Out("skip", "", None)
NoFix == Out("none", "", None)
Raise(exc) == Out("raise", exc, None)
Fix(res) == Out("fix", "", Some(res))

\* line_split[j] of Python (0-based)
Field(line, j) == line[j + 1]

Max(a, b) == IF a >= b THEN a ELSE b

\* The values format(t / 60, ".5f") can denote, in 1e-5 degrees, for t in units of
\* 1e-5 minutes: the nearest integer to t / 60.  On a decimal tie the binary
\* floating point sum lies on either side, so both neighbours are possible.
MINUTES_PER_DEGREE == 60
RoundDiv60(t) ==
    LET half == MINUTES_PER_DEGREE \div 2
        f == (t + half) \div MINUTES_PER_DEGREE
    IN IF (t + half) % MINUTES_PER_DEGREE = 0 THEN {f - 1, f} ELSE {f}

\* float(deg) + (float(min) / 60), then "%.5f": deg and min are decimal fractions
\* of at most FORMAT_DECIMALS decimals (the NMEA fields carry at most five)
FORMAT_DECIMALS == 5
DegreesPlusMinutes(deg, min) ==
    LET k == Max(deg.k, min.k)
        t == MINUTES_PER_DEGREE * deg.n * Pow10(k - deg.k) + min.n * Pow10(k - min.k)
    IN RoundDiv60(t * Pow10(FORMAT_DECIMALS - k))

\* lines 182-200 for one coordinate: the degrees are the first `width` characters,
\* the minutes the rest; the value is negated when the direction is `negative`
LAT_DEG_WIDTH == 2
LNG_DEG_WIDTH == 3
CoordinateSyntax(text, width) ==
    FloatSyntax(Slice(text, 0, width)) /\ FloatSyntax(SliceFrom(text, width))
\* (a variant that ignores the direction letter)
nmea_to_decimal_unsigned(text, width, dir, negative) ==
    DegreesPlusMinutes(FloatOf(Slice(text, 0, width)), FloatOf(SliceFrom(text, width)))
nmea_to_decimal(text, width, dir, negative) ==
    { (IF dir = negative THEN -1 ELSE 1) * v :
        v \in DegreesPlusMinutes(FloatOf(Slice(text, 0, width)),
                                 FloatOf(SliceFrom(text, width))) }

\* lines 171-203: build the GpsResponse from the fields of a GPGGA line.  The
\* keyword arguments are evaluated in the order written: timestamp, quality,
\* sat_count, altitude, error.
gga_response(line) ==
    IF Len(line) < 7 THEN {Raise("IndexError")}
    ELSE IF ~IntSyntax(Field(line, 6)) THEN {Raise("ValueError")}
    ELSE IF ~IsGpsReadQuality(IntOf(Field(line, 6))) THEN {Raise("ValueError")}
    ELSE IF Len(line) < 8 THEN {Raise("IndexError")}
    ELSE IF ~IntSyntax(Field(line, 7)) THEN {Raise("ValueError")}
    ELSE IF Len(line) < 10 THEN {Raise("IndexError")}
    ELSE IF ~FloatSyntax(Field(line, 9)) THEN {Raise("ValueError")}
    ELSE IF ~FloatSyntax(Field(line, 8)) THEN {Raise("ValueError")}
    ELSE IF ~CoordinateSyntax(Field(line, 2), LAT_DEG_WIDTH) THEN {Raise("ValueError")}
    ELSE IF ~CoordinateSyntax(Field(line, 4), LNG_DEG_WIDTH) THEN {Raise("ValueError")}
    ELSE LET res == GpsResponse(Field(line, 1), IntOf(Field(line, 6)),
                                IntOf(Field(line, 7)), FloatOf(Field(line, 9)),
                                FloatOf(Field(line, 8)))
         IN { Fix([res EXCEPT !.lat = latitude, !.lng = longitude]) :
                latitude \in nmea_to_decimal(Field(line, 2), LAT_DEG_WIDTH,
                                             Field(line, 3), <<"S">>),
                longitude \in nmea_to_decimal(Field(line, 4), LNG_DEG_WIDTH,
                                              Field(line, 5), <<"W">>) }

\* (a variant without the check of lines 163-164)
gga_candidate_unchecked(line) == gga_response(line)
\* lines 159-165, then 171-203: a GPGGA line whose fix quality is 0 gives None
gga_candidate(line) ==
    IF Len(line) < 7 THEN {Raise("IndexError")}
    ELSE IF ~IntSyntax(Field(line, 6)) THEN {Raise("ValueError")}
    ELSE IF IntOf(Field(line, 6)) = 0 THEN {NoFix}
    ELSE gga_response(line)

\* one pass of the while loop of lines 158-166 on the line just read
gga_line(line) == IF is_gga_line(line) THEN gga_candidate(line) ELSE {Skip}

(***************************************************************************)
(* NMEA text of a coordinate given in 1e-6 degrees: "DDMM.MMMM" and a      *)
(* hemisphere letter for a latitude, "DDDMM.MMMMM" for a longitude.        *)
(***************************************************************************)
RECURSIVE PadDigits(_, _)
PadDigits(n, w) ==
    IF w = 0 THEN <<>> ELSE Append(PadDigits(n \div 10, w - 1), DigitChars[(n % 10) + 1])

Abs(x) == IF x < 0 THEN -x ELSE x
\* one degree, in the 1e-6 degrees of the coordinates
MICRO == Pow10(6)

EncodeLat(u) ==
    LET deg == Abs(u) \div MICRO
        m4 == ((Abs(u) % MICRO) * 6 + 5) \div 10     \* minutes, rounded to 1e-4
    IN PadDigits(deg, 2) \o PadDigits(m4 \div 10000, 2) \o <<".">> \o PadDigits(m4 % 10000, 4)
EncodeLatDir(u) == IF u < 0 THEN <<"S">> ELSE <<"N">>

EncodeLng(u) ==
    LET deg == Abs(u) \div MICRO
        m5 == (Abs(u) % MICRO) * 6                   \* minutes, exact in 1e-5
    IN PadDigits(deg, 3) \o PadDigits(m5 \div 100000, 2) \o <<".">> \o PadDigits(m5 % 100000, 5)
EncodeLngDir(u) == IF u < 0 THEN <<"W">> ELSE <<"E">>

\* the text of n / 10^k with w digits before the point
DecText(n, w, k) ==
    IF k = 0 THEN PadDigits(n, w)
    ELSE PadDigits(n \div Pow10(k), w) \o <<".">> \o PadDigits(n % Pow10(k), k)

GGA_ID == <<"$", "G", "P", "G", "G", "A">>
RMC_ID == <<"$", "G", "P", "R", "M", "C">>

\* the fields of "$GPGGA,ts,lat,N,lng,E,q,sats,hdop,alt,M,46.9,M,,*47"
GgaFields(id, ts, lat, lat_dir, lng, lng_dir, q, sats, hdop, alt) ==
    << id, ts, lat, lat_dir, lng, lng_dir, q, sats, hdop, alt,
       <<"M">>, DecText(469, 2, 1), <<"M">>, <<>>, <<"*", "4", "7">> >>

(***************************************************************************)
(* utils.py: Interval and the two S-unit scales.  A Python dict keeps      *)
(* insertion order, so a scale is the sequence of its (key, Interval)      *)
(* items.                                                                  *)
(***************************************************************************)
Interval(key, start, end) == [key |-> key, start |-> start, end |-> end]

\* (a variant that holds the lower bound and not the upper)
in_interval_closed_low(interval, val) ==
    /\ ~IsNegInf(val)
    /\ val.n >= interval.start * Pow10(val.k)
    /\ val.n < interval.end * Pow10(val.k)
\* Interval.in_interval(val): val > self.start and val <= self.end
\* (-inf > self.start is False for every start of the scales)
in_interval(interval, val) ==
    /\ ~IsNegInf(val)
    /\ val.n > interval.start * Pow10(val.k)
    /\ val.n <= interval.end * Pow10(val.k)

S_UNIT_SCALE_HF ==
    << Interval("S0", -999, -48),
       Interval("S1", -48, -42),
       Interval("S2", -42, -36),
       Interval("S3", -36, -30),
       Interval("S4", -30, -24),
       Interval("S5", -24, -18),
       Interval("S6", -18, -12),
       Interval("S7", -12, -6),
       Interval("S8", -6, 0),
       Interval("S9", 0, 6),
       Interval("S10", 6, 12),
       Interval("S11", 12, 18),
       Interval("S12", 18, 24),
       Interval("S too much", 24, 999) >>

S_UNIT_SCALE_VHF ==
    << Interval("S0", -999, -48),
       Interval("S1", -48, -42),
       Interval("S2", -42, -36),
       Interval("S3", -36, -30),
       Interval("S4", -30, -24),
       Interval("S5", -24, -18),
       Interval("S6", -18, -12),
       Interval("S7", -12, -6),
       Interval("S8", -6, 0),
       Interval("S9", 0, 6),
       Interval("S10", 6, 12),
       Interval("S11", 12, 18),
       Interval("S12", 18, 24),
       Interval("S too much", 24, 999) >>

\* config.py: LISTENING_FREQUENCY and the scale it selects
LISTENING_FREQUENCY == 146520000
HF_LIMIT == 30000000
S_UNIT_SCALE ==
    IF LISTENING_FREQUENCY >= HF_LIMIT THEN S_UNIT_SCALE_VHF ELSE S_UNIT_SCALE_HF

UnknownSUnit == "Unknown S-unit"

\* get_s_unit_from_db, with the scale as a parameter: the key of the first
\* item, in insertion order, whose interval holds the value
RECURSIVE s_unit_scan(_, _, _)
s_unit_scan(scale, k, signal_strength_db) ==
    IF k > Len(scale) THEN UnknownSUnit
    ELSE IF in_interval(scale[k], signal_strength_db) THEN scale[k].key
    ELSE s_unit_scan(scale, k + 1, signal_strength_db)

s_unit_from_db(scale, signal_strength_db) == s_unit_scan(scale, 1, signal_strength_db)

get_s_unit_from_db(signal_strength_db) == s_unit_from_db(S_UNIT_SCALE, signal_strength_db)

(***************************************************************************)
(* The functions on their own: each specification draws the inputs of one  *)
(* function from a bounded set in its initial state and applies it once.   *)
(* The variables of the other parts stay at their idle values.             *)
(***************************************************************************)
MainIdle ==
    /\ pc = "off" /\ status = "running" /\ err = "none" /\ exit_code = -1
    /\ platform = "Linux"
    /\ port_list = <<>> /\ inp = "" /\ prompted = FALSE /\ port = None
    /\ serial_obj = None /\ poll_i = 0 /\ setup_sleeps = 0 /\ gps_stream = None
    /\ serial_reads = 0 /\ skipped = 0 /\ gps_read = None /\ file_exists = FALSE
    /\ signal_source = "RTLSDR" /\ announce_signal = TRUE
    /\ sdr = "none" /\ atexit_reg = FALSE
    /\ db = Dec(0, 0) /\ s_unit = "" /\ rows = <<>> /\ fixes = <<>> /\ i = 0
    /\ spoken = <<>>
ScaleIdle == cl_scale = "VHF" /\ cl_val = Dec(0, 0) /\ cl_label = ""
FixIdle == fx = GpsResponse(<<>>, INVALID, 0, Dec(0, 0), Dec(0, 0)) /\ fx_valid = None
DecIdle == rt_lat = 0 /\ rt_lng = 0 /\ dc_line = <<>> /\ dc_out = None
DedupIdle ==
    /\ dd_step = 0 /\ dd_df = <<>> /\ dd_bins = <<>> /\ dd_out = None /\ dd_pass = 0
    /\ dd_err = "none"

\* ---- get_s_unit_from_db --------------------------------------------------
\* levels from -DbMax to DbMax dB, in steps of half a dB
DbMax == 1001
DbValues ==
    {Dec(m, 0) : m \in (-DbMax)..DbMax} \cup {Dec(10 * m + 5, 1) : m \in (-DbMax)..(DbMax - 1)}
ScaleNamed(name) == IF name = "HF" THEN S_UNIT_SCALE_HF ELSE S_UNIT_SCALE_VHF

ScaleInit ==
    /\ MainIdle /\ FixIdle /\ DecIdle /\ DedupIdle
    /\ cl_scale \in {"HF", "VHF"}
    /\ cl_val \in DbValues
    /\ cl_label = ""
Classify ==
    /\ cl_label = ""
    /\ cl_label' = s_unit_from_db(ScaleNamed(cl_scale), cl_val)
    /\ UNCHANGED <<cl_scale, cl_val, mainVars, fixVars, decVars, dedupVars>>
ScaleNext == Classify
SpecScale == ScaleInit /\ [][ScaleNext]_vars

\* ---- GpsResponse.is_valid_read ---------------------------------------------
MaxSats == 5
DopSpread == 3
\* dilutions: whole numbers up to DOP_LIMIT + DopSpread, and hundredths around DOP_LIMIT
DopValues ==
    {Dec(m, 0) : m \in 0..(DOP_LIMIT + DopSpread)}
    \cup {Dec(n, 2) : n \in (DOP_LIMIT * 100 - DopSpread)..(DOP_LIMIT * 100 + DopSpread)}
    \cup {Dec(9, 1)}

FixInit ==
    /\ MainIdle /\ ScaleIdle /\ DecIdle /\ DedupIdle
    /\ \E q \in INVALID..SIMULATED, n \in 0..MaxSats, e \in DopValues :
          fx = GpsResponse(<<>>, q, n, Dec(0, 0), e)
    /\ fx_valid = None
Validate ==
    /\ fx_valid = None
    /\ fx_valid' = Some(is_valid_read(fx))
    /\ UNCHANGED <<fx, mainVars, scaleVars, decVars, dedupVars>>
FixNext == Validate
SpecFix == FixInit /\ [][FixNext]_vars

\* ---- get_gga_signal_from_serial on one line ----------------------------------
\* coordinates in 1e-6 degrees: whole degrees, fractions at the roundings of the
\* text and of "%.5f", and CoordGrid fractions spread over the degree
CoordGrid == 4
FracSamples ==
    {0, 1, 5, 16, 17, 117300, 500000, 516665, 516667, 999999}
    \cup {j * (MICRO \div CoordGrid) + 3 * j : j \in 1..(CoordGrid - 1)}
LatSamples ==
    {sg * (d * MICRO + f) : sg \in {-1, 1}, d \in {0, 48, 89}, f \in FracSamples}
    \cup {-90 * MICRO, 90 * MICRO}
LngSamples ==
    {sg * (d * MICRO + f) : sg \in {-1, 1}, d \in {0, 11, 179}, f \in FracSamples}
    \cup {-180 * MICRO, 180 * MICRO}

\* the fields of "$GPGGA,123519,4807.038,N,01131.000,E,1,08,0.9,545.4,M,46.9,M,,*47"
ExampleLat == <<"4", "8", "0", "7", ".", "0", "3", "8">>
ExampleLng == <<"0", "1", "1", "3", "1", ".", "0", "0", "0">>
ExampleTime == PadDigits(123519, 6)
ExampleAlt == DecText(5454, 3, 1)
ExampleLine ==
    GgaFields(GGA_ID, ExampleTime, ExampleLat, <<"N">>, ExampleLng, <<"E">>,
              <<"1">>, <<"0", "8">>, DecText(9, 1, 1), ExampleAlt)

\* texts for the numeric fields: well formed, and not
QualityTexts == { <<"0">>, <<"0", "0">>, <<"-", "0">>, <<"1">>, <<"2">>, <<"8">>, <<"9">>,
                  <<"x">>, <<>> }
SatTexts == { <<"0", "2">>, <<"0", "3">>, <<"0", "8">>, <<"x">>, <<>> }
DopTexts == { DecText(9, 1, 1), DecText(1999, 2, 2), DecText(20, 2, 0), <<"x">> }
AltTexts == { ExampleAlt, <<"-", "1", "2", ".", "5">>, <<"x">> }
\* field counts: the whole line, and lines cut short
FieldCounts == {2, 7, 8, 9, 10, 15}

DecodeInputs ==
    { [lat |-> u, lng |-> v,
       line |-> GgaFields(GGA_ID, ExampleTime, EncodeLat(u), EncodeLatDir(u),
                          EncodeLng(v), EncodeLngDir(v), q, <<"0", "8">>,
                          DecText(9, 1, 1), ExampleAlt)] :
        u \in LatSamples, v \in LngSamples, q \in { <<"1">>, <<"0">> } }
    \cup
    { [lat |-> 48117300, lng |-> 11516667,
       line |-> SubSeq(GgaFields(id, ExampleTime, EncodeLat(48117300), <<"N">>,
                                 EncodeLng(11516667), <<"E">>, q, n, e, a), 1, c)] :
        id \in {GGA_ID, RMC_ID}, q \in QualityTexts, n \in SatTexts, e \in DopTexts,
        a \in AltTexts, c \in FieldCounts }

DecInit ==
    /\ MainIdle /\ ScaleIdle /\ FixIdle /\ DedupIdle
    /\ \E x \in DecodeInputs : rt_lat = x.lat /\ rt_lng = x.lng /\ dc_line = x.line
    /\ dc_out = None
Decode ==
    /\ dc_out = None
    /\ \E o \in gga_line(dc_line) : dc_out' = Some(o)
    /\ UNCHANGED <<rt_lat, rt_lng, dc_line, mainVars, scaleVars, fixVars, dedupVars>>
DecNext == Decode
SpecDecode == DecInit /\ [][DecNext]_vars

(***************************************************************************)
(* Properties of the functions.                                            *)
(***************************************************************************)
Classified == cl_label # ""
Matching(scale, val) == {k \in 1..Len(scale) : in_interval(scale[k], val)}

\* C2: on both scales, a value strictly above a range's lower bound and at most its
\* upper bound is given that range's label; no value is matched by two ranges; the
\* result is one label of the scale, or the unknown result when no range matches.
C2_HalfOpenRanges ==
    Classified =>
        LET scale == ScaleNamed(cl_scale) IN
        /\ \A k \in 1..Len(scale) :
              (/\ cl_val.n > scale[k].start * Pow10(cl_val.k)
               /\ cl_val.n <= scale[k].end * Pow10(cl_val.k)) => cl_label = scale[k].key
        /\ Cardinality(Matching(scale, cl_val)) <= 1
        /\ (cl_label = UnknownSUnit) <=> (Matching(scale, cl_val) = {})
C2_Witness ==
    /\ Classified /\ cl_scale = "HF"
    /\ cl_val = Dec(-48, 0) /\ cl_label = "S0"

\* C3: a value below the lowest range's lower bound is classified as the lowest
\* label, a value above the highest range's upper bound as the highest label.
C3_SentinelsAbsorb ==
    Classified =>
        LET scale == ScaleNamed(cl_scale) IN
        /\ cl_val.n < scale[1].start * Pow10(cl_val.k) => cl_label = scale[1].key
        /\ cl_val.n > scale[Len(scale)].end * Pow10(cl_val.k)
              => cl_label = scale[Len(scale)].key

\* C4: is_valid_read is true exactly when the quality is not INVALID, the dilution
\* is strictly below 20 and there are at least 3 satellites; so 2 satellites and a
\* dilution of exactly 20 are rejected whatever the other fields, and a dilution of
\* 19.99 with 3 satellites and a quality other than INVALID is accepted.
C4_ValidIff ==
    fx_valid # None =>
        /\ fx_valid[1] <=> (/\ fx.quality # 0
                            /\ fx.error.n < 20 * Pow10(fx.error.k)
                            /\ fx.sat_count >= 3)
        /\ fx.sat_count = 2 => ~fx_valid[1]
        /\ fx.error \in {Dec(20, 0), Dec(2000, 2)} => ~fx_valid[1]
        /\ (fx.error = Dec(1999, 2) /\ fx.sat_count = 3 /\ fx.quality # 0) => fx_valid[1]
C4_Witness ==
    /\ fx_valid = Some(TRUE)
    /\ fx.error = Dec(1999, 2) /\ fx.sat_count = 3 /\ fx.quality = SIMULATED

Decoded == dc_out # None
QualityIsZero(line) ==
    /\ is_gga_line(line)
    /\ Len(line) >= 7
    /\ IntSyntax(Field(line, 6))
    /\ IntOf(Field(line, 6)) = 0

\* C5: a GPGGA line whose fix quality field parses to zero decodes to None, never
\* to a GpsResponse, whatever its other fields hold.
C5_ZeroQualityIsNoFix == (Decoded /\ QualityIsZero(dc_line)) => dc_out = Some(NoFix)
C5_Witness ==
    /\ Decoded /\ dc_out = Some(NoFix)
    /\ Len(dc_line) = 9
    /\ Field(dc_line, 6) = <<"0", "0">>
    /\ Field(dc_line, 7) = <<"x">>

\* the line that carries the coordinates rt_lat, rt_lng with a usable fix
EncodedLine ==
    GgaFields(GGA_ID, ExampleTime, EncodeLat(rt_lat), EncodeLatDir(rt_lat),
              EncodeLng(rt_lng), EncodeLngDir(rt_lng), <<"1">>, <<"0", "8">>,
              DecText(9, 1, 1), ExampleAlt)
\* 1e-4 degrees, in 1e-6 degrees
Within(decoded5, original6) == Abs(decoded5 * 10 - original6) <= MICRO \div 10000

\* C6: a latitude in [-90, 90] and a longitude in [-180, 180], written as
\* "DDMM.MMMM" N/S and "DDDMM.MMMMM" E/W, decode to a fix whose coordinates are
\* within 1e-4 degrees of the original ones.
C6_RoundTrip ==
    (Decoded /\ dc_line = EncodedLine) =>
        /\ dc_out[1].kind = "fix"
        /\ Within(dc_out[1].res[1].lat, rt_lat)
        /\ Within(dc_out[1].res[1].lng, rt_lng)
C6_Witness ==
    /\ Decoded /\ dc_line = EncodedLine
    /\ rt_lat = -48117300 /\ rt_lng = -179516665
    /\ dc_out[1].kind = "fix"
    /\ dc_out[1].res[1].lat = -4811730
    /\ dc_out[1].res[1].lng = -17951667

(***************************************************************************)
(* The acquisition driver: collect_data.main() and setup_gps_source().     *)
(***************************************************************************)
\* config.py
GPS_POLL_SEC == 30
ANNOUNCE_SIGNAL == TRUE
ANNOUNCE_SIGNAL_EVERY == 5

\* ---- bounds of the model ----
MaxPorts == 2       \* serial ports listed by comports()
MaxSkip == 1        \* consecutive lines without "GPGGA" in one decoder call
MaxTicks == 2       \* iterations of the main loop
MaxLoopTicks == 6   \* iterations of the main loop when it runs without a GPS source

\* A port is [device, product]: the device is the number n of "/dev/ttyUSBn", the
\* product is the text of p.product ("None" when the port gives none).  The
\* devices of a list are distinct; they are numbered in the order of the list.
Products == {"USB GPS Receiver", "None"}
\* "gps" in str(p.product) or "GPS" in str(p.product)
is_gps_product(product) == product = "USB GPS Receiver"
PortLists ==
    UNION { { [k \in 1..n |-> [device |-> k - 1, product |-> pr[k]]] :
                pr \in [1..n -> Products] } :
            n \in 0..MaxPorts }
\* what the operator can type at the prompt: a device, or a text that names none
Typed == 0..MaxPorts
DevicesOf(pl) == {pl[k].device : k \in 1..Len(pl)}

\* lines 217-222: the device of the first port whose product names a GPS
GpsPorts(pl) == {k \in 1..Len(pl) : is_gps_product(pl[k].product)}
FirstGps(pl) == CHOOSE k \in GpsPorts(pl) : \A h \in GpsPorts(pl) : k <= h

\* lines 212-241: the choice of the port.  prompt: input() is called; port: the
\* local `port` afterwards (None while it is unbound); give_up: the function
\* returns None at line 241.
Choice(prompt, p, give_up) == [prompt |-> prompt, port |-> p, give_up |-> give_up]
\* (a variant that takes what the operator typed without looking it up)
select_port_as_typed(pl, typed) ==
    LET found_gps_for_sure == GpsPorts(pl) # {}
        scanned == IF found_gps_for_sure THEN Some(pl[FirstGps(pl)].device) ELSE None
    IN IF Len(pl) > 1 /\ ~found_gps_for_sure THEN Choice(TRUE, Some(typed), FALSE)
       ELSE IF Len(pl) = 1 THEN Choice(FALSE, Some(pl[1].device), FALSE)
       ELSE IF ~found_gps_for_sure THEN Choice(FALSE, scanned, TRUE)
       ELSE Choice(FALSE, scanned, FALSE)
select_port(pl, typed) ==
    LET found_gps_for_sure == GpsPorts(pl) # {}
        scanned == IF found_gps_for_sure THEN Some(pl[FirstGps(pl)].device) ELSE None
    IN IF Len(pl) > 1 /\ ~found_gps_for_sure
       THEN Choice(TRUE, IF typed \in DevicesOf(pl) THEN Some(typed) ELSE scanned, FALSE)
       ELSE IF Len(pl) = 1 THEN Choice(FALSE, Some(pl[1].device), FALSE)
       ELSE IF ~found_gps_for_sure THEN Choice(FALSE, scanned, TRUE)
       ELSE Choice(FALSE, scanned, FALSE)

\* ---- the serial feed of the driver: the lines the GPS unit may send ----
LineRmc == <<RMC_ID, ExampleTime, <<"A">>, ExampleLat, <<"N">>, ExampleLng, <<"E">>>>
LineSouthWest ==
    GgaFields(GGA_ID, ExampleTime, EncodeLat(-33868800), <<"S">>, EncodeLng(-151209300),
              <<"W">>, <<"2">>, <<"0", "5">>, DecText(12, 1, 1), DecText(58, 2, 0))
LineNoFix ==
    GgaFields(GGA_ID, ExampleTime, <<>>, <<>>, <<>>, <<>>, <<"0">>, <<"0", "0">>,
              <<>>, <<>>)
LineTwoSats ==
    GgaFields(GGA_ID, ExampleTime, ExampleLat, <<"N">>, ExampleLng, <<"E">>,
              <<"1">>, <<"0", "2">>, DecText(9, 1, 1), ExampleAlt)
LineDop25 ==
    GgaFields(GGA_ID, ExampleTime, ExampleLat, <<"N">>, ExampleLng, <<"E">>,
              <<"1">>, <<"0", "8">>, DecText(250, 2, 1), ExampleAlt)
LineShort == <<GGA_ID, ExampleTime>>
LineBadSats ==
    GgaFields(GGA_ID, ExampleTime, ExampleLat, <<"N">>, ExampleLng, <<"E">>,
              <<"1">>, <<"x">>, DecText(9, 1, 1), ExampleAlt)
SerialLines ==
    {LineRmc, ExampleLine, LineSouthWest, LineNoFix, LineTwoSats, LineDop25, LineShort,
     LineBadSats}

\* ---- the end of the process ----
\* the handlers registered with atexit run when the interpreter ends
AtExit(handle) == IF atexit_reg /\ handle = "open" THEN "closed" ELSE handle
Crash(exc) ==
    /\ status' = "crashed" /\ err' = exc /\ exit_code' = exit_code
    /\ sdr' = AtExit(sdr)
SysExit(code) ==
    /\ status' = "exited" /\ err' = err /\ exit_code' = code
    /\ sdr' = AtExit(sdr)
Continue == status' = status /\ err' = err /\ exit_code' = exit_code

\* the frame of setup_gps_source: kept while the function runs, gone once it has
\* returned or an exception has left it
setupFrame == <<port_list, inp, prompted, port, poll_i, setup_sleeps, skipped>>
DropSetupFrame ==
    /\ port_list' = <<>> /\ inp' = 0 /\ prompted' = FALSE /\ port' = None
    /\ poll_i' = 0 /\ setup_sleeps' = 0 /\ skipped' = 0

Init ==
    /\ ScaleIdle /\ FixIdle /\ DecIdle /\ DedupIdle
    /\ pc = "setup" /\ status = "running" /\ err = "none" /\ exit_code = -1
    /\ platform \in {"Darwin", "Linux", "Windows"}
    /\ signal_source \in {"RTLSDR", "LINE_IN"}
    /\ announce_signal = ANNOUNCE_SIGNAL
    /\ port_list \in PortLists
    /\ inp = 0 /\ prompted = FALSE /\ port = None
    /\ serial_obj = None /\ poll_i = 0 /\ setup_sleeps = 0 /\ gps_stream = None
    /\ serial_reads = 0 /\ skipped = 0 /\ gps_read = None /\ file_exists = FALSE
    /\ sdr = "none" /\ atexit_reg = FALSE
    /\ db = Dec(0, 0) /\ s_unit = "" /\ rows = <<>> /\ fixes = <<>> /\ i = 0
    /\ spoken = <<>>

tickVars == <<db, s_unit, rows, fixes, i, spoken, gps_read, serial_reads, file_exists,
              atexit_reg>>

\* setup_gps_source, lines 212-243: list the ports, choose one, open it
SelectPort ==
    /\ status = "running" /\ pc = "setup"
    /\ \E typed \in Typed :
         LET c == select_port(port_list, typed) IN
         IF c.give_up
         THEN \* line 241: return None
              /\ prompted' = c.prompt /\ inp' = inp /\ port' = c.port
              /\ pc' = "setup_returned" /\ gps_stream' = None
              /\ serial_obj' = serial_obj /\ Continue /\ sdr' = sdr
              /\ UNCHANGED <<port_list, poll_i, setup_sleeps, skipped>>
         ELSE IF c.port = None
         THEN \* line 242: the f-string reads `port`, which was never bound
              /\ pc' = pc /\ gps_stream' = gps_stream /\ serial_obj' = serial_obj
              /\ Crash("UnboundLocalError") /\ DropSetupFrame
         ELSE \* line 243: serial.Serial(port) opens the port, or raises
              \/ /\ prompted' = c.prompt /\ inp' = (IF c.prompt THEN typed ELSE inp)
                 /\ port' = c.port
                 /\ serial_obj' = c.port /\ pc' = "poll"
                 /\ gps_stream' = gps_stream /\ Continue /\ sdr' = sdr
                 /\ UNCHANGED <<port_list, poll_i, setup_sleeps, skipped>>
              \/ /\ serial_obj' = serial_obj /\ pc' = pc
                 /\ gps_stream' = gps_stream
                 /\ Crash("SerialException") /\ DropSetupFrame
    /\ UNCHANGED <<platform, signal_source, announce_signal, tickVars, scaleVars, fixVars,
                   decVars, dedupVars>>

\* setup_gps_source, line 245: the next iteration of `for _ in range(GPS_POLL_SEC)`,
\* or lines 255-258 when the range is used up: log the error, return None
PollStep ==
    /\ status = "running" /\ pc = "poll"
    /\ IF poll_i < GPS_POLL_SEC
       THEN /\ poll_i' = poll_i + 1 /\ pc' = "poll_read" /\ gps_stream' = gps_stream
       ELSE /\ poll_i' = poll_i /\ pc' = "setup_returned" /\ gps_stream' = None
    /\ skipped' = 0
    /\ UNCHANGED <<status, err, exit_code, sdr, platform, port_list, inp, prompted, port,
                   serial_obj, setup_sleeps, signal_source, announce_signal, tickVars,
                   scaleVars, fixVars, decVars, dedupVars>>

\* what the decoder does with each line of the feed
FeedOutcomes == [l \in SerialLines |-> gga_line(l)]
FeedTargets == {l \in SerialLines : is_gga_line(l)}
\* the lines the feed can deliver now: at most MaxSkip lines without "GPGGA" in a row
Deliverable == IF skipped < MaxSkip THEN SerialLines ELSE FeedTargets

\* setup_gps_source, lines 246-252: one readline() of the decoder called at line 246
\* and, when the decoder returns, the rest of the iteration
PollRead ==
    /\ status = "running" /\ pc = "poll_read"
    /\ \E l \in Deliverable : \E o \in FeedOutcomes[l] :
         CASE o.kind = "skip" ->
                /\ skipped' = skipped + 1 /\ pc' = pc
                /\ setup_sleeps' = setup_sleeps /\ gps_stream' = gps_stream
                /\ Continue /\ sdr' = sdr
                /\ UNCHANGED <<port_list, inp, prompted, port, poll_i>>
           [] o.kind = "raise" ->
                /\ pc' = pc /\ gps_stream' = gps_stream
                /\ Crash(o.exc) /\ DropSetupFrame
           [] o.kind = "none" ->
                \* lines 247-248: continue, without the sleep of line 252
                /\ skipped' = 0 /\ pc' = "poll"
                /\ setup_sleeps' = setup_sleeps /\ gps_stream' = gps_stream
                /\ Continue /\ sdr' = sdr
                /\ UNCHANGED <<port_list, inp, prompted, port, poll_i>>
           [] o.kind = "fix" ->
                /\ skipped' = 0 /\ Continue /\ sdr' = sdr
                /\ UNCHANGED <<port_list, inp, prompted, port, poll_i>>
                /\ IF is_valid_read(o.res[1])
                   THEN \* line 251: return serial_obj
                        /\ pc' = "setup_returned" /\ gps_stream' = serial_obj
                        /\ setup_sleeps' = setup_sleeps
                   ELSE \* line 252: time.sleep(1)
                        /\ pc' = "poll" /\ gps_stream' = gps_stream
                        /\ setup_sleeps' = setup_sleeps + 1
    /\ UNCHANGED <<platform, serial_obj, signal_source, announce_signal, tickVars,
                   scaleVars, fixVars, decVars, dedupVars>>

\* main, lines 330-342: setup_gps_source has returned, its locals are gone;
\* init_output_file asks before it overwrites an existing file
InitOutputFile ==
    /\ status = "running" /\ pc = "setup_returned"
    /\ DropSetupFrame
    /\ \E exists \in BOOLEAN, response \in {"y", "Y", "n", ""} :
         /\ file_exists' = exists
         /\ IF exists /\ response \notin {"y", "Y"}
            THEN \* init_output_file returns False: sys.exit(1)
                 /\ pc' = pc /\ SysExit(1)
            ELSE \* the header row is written
                 /\ pc' = "configure" /\ Continue /\ sdr' = sdr
    /\ UNCHANGED <<platform, serial_obj, gps_stream, serial_reads, gps_read, signal_source,
                   announce_signal, atexit_reg, db, s_unit, rows, fixes, i, spoken,
                   scaleVars, fixVars, decVars, dedupVars>>

\* main, lines 344-362: open and configure the RTL-SDR, or leave for LINE IN
Configure ==
    /\ status = "running" /\ pc = "configure"
    /\ IF signal_source = "RTLSDR"
       THEN \/ \* RtlSdr() finds no device and raises
               /\ pc' = pc /\ atexit_reg' = atexit_reg /\ i' = i
               /\ Crash("LibUSBError")
            \/ \* the device is open; a setter of lines 350-354 raises
               /\ pc' = pc /\ atexit_reg' = atexit_reg /\ i' = i
               /\ status' = "crashed" /\ err' = "LibUSBError" /\ exit_code' = exit_code
               /\ sdr' = "open"
            \/ \* the device is open and set; line 355 registers sdr.close
               /\ pc' = "sample" /\ atexit_reg' = TRUE /\ i' = 0
               /\ Continue /\ sdr' = "open"
       ELSE \* lines 357-359: sys.exit(0)
            /\ pc' = pc /\ atexit_reg' = atexit_reg /\ i' = i
            /\ SysExit(0)
    /\ UNCHANGED <<platform, port_list, inp, prompted, port, serial_obj, poll_i,
                   setup_sleeps, gps_stream, serial_reads, skipped, gps_read, file_exists,
                   signal_source, announce_signal, db, s_unit, rows, fixes, spoken,
                   scaleVars, fixVars, decVars, dedupVars>>

\* A block of samples, as far as the level depends on it: zeros, every sample is
\* 0 (so is every bin of the spectrum); else max_db is the largest bin, in dBFS.
SampleBlock(zeros, max_db) == [zeros |-> zeros, max_db |-> max_db]
SampleBlocks ==
    {SampleBlock(TRUE, NEG_INF), SampleBlock(FALSE, Dec(-505, 1)),
     SampleBlock(FALSE, Dec(3, 0))}

\* dbfft, lines 96-100, and np.max at line 130: 20 * log10(0) is -inf in every
\* bin of a block of zeros, and so is their maximum
dbfft_max(block) == IF block.zeros THEN NEG_INF ELSE block.max_db

\* config.py: ANTENNA_FUDGE_FACTOR, in dB
ANTENNA_FUDGE_FACTOR == 0
\* read_signal_str, lines 122-135: max_db - ANTENNA_FUDGE_FACTOR (-inf stays -inf)
read_signal_str(block) ==
    LET max_db == dbfft_max(block) IN
    IF IsNegInf(max_db) THEN NEG_INF
    ELSE Dec(max_db.n - ANTENNA_FUDGE_FACTOR * Pow10(max_db.k), max_db.k)

\* main, lines 366-372: read_signal_str and get_s_unit_from_db; gps_read = None
\* (the loop is followed for `ticks` iterations)
SampleWithin(ticks) ==
    /\ status = "running" /\ pc = "sample"
    /\ Len(rows) < ticks
    /\ \/ \* sdr.read_samples raises
          /\ pc' = pc /\ db' = db /\ s_unit' = s_unit /\ gps_read' = gps_read
          /\ Crash("LibUSBError")
       \/ \E block \in SampleBlocks :
            /\ db' = read_signal_str(block)
            /\ s_unit' = get_s_unit_from_db(read_signal_str(block))
            /\ gps_read' = None /\ pc' = "position"
            /\ Continue /\ sdr' = sdr
    /\ skipped' = 0
    /\ UNCHANGED <<platform, port_list, inp, prompted, port, serial_obj, poll_i,
                   setup_sleeps, gps_stream, serial_reads, file_exists, signal_source,
                   announce_signal, atexit_reg, rows, fixes, i, spoken, scaleVars, fixVars,
                   decVars, dedupVars>>

Sample == SampleWithin(MaxTicks)

\* main, line 375: `if gps_stream is not None`
\* (a variant that asks whether set-up opened a port)
positioning_enabled_if_opened(stream, opened) == opened # None
positioning_enabled(stream, opened) == stream # None

\* main, line 375 when no GPS source was found: nothing is read
NoPosition ==
    /\ status = "running" /\ pc = "position"
    /\ ~positioning_enabled(gps_stream, serial_obj)
    /\ pc' = "emit"
    /\ UNCHANGED <<status, err, exit_code, sdr, platform, port_list, inp, prompted, port,
                   serial_obj, poll_i, setup_sleeps, gps_stream, serial_reads, skipped,
                   gps_read, file_exists, signal_source, announce_signal, atexit_reg, db,
                   s_unit, rows, fixes, i, spoken, scaleVars, fixVars, decVars, dedupVars>>

\* main, line 376: one readline() of the decoder and, when it returns, gps_read
TickRead ==
    /\ status = "running" /\ pc = "position"
    /\ positioning_enabled(gps_stream, serial_obj)
    /\ serial_reads' = serial_reads + 1
    /\ \E l \in Deliverable : \E o \in FeedOutcomes[l] :
         CASE o.kind = "skip" ->
                /\ skipped' = skipped + 1 /\ pc' = pc /\ gps_read' = gps_read
                /\ Continue /\ sdr' = sdr
           [] o.kind = "raise" ->
                /\ skipped' = skipped /\ pc' = pc /\ gps_read' = gps_read
                /\ Crash(o.exc)
           [] o.kind = "none" ->
                /\ skipped' = 0 /\ pc' = "emit" /\ gps_read' = None
                /\ Continue /\ sdr' = sdr
           [] o.kind = "fix" ->
                /\ skipped' = 0 /\ pc' = "emit" /\ gps_read' = o.res
                /\ Continue /\ sdr' = sdr
    /\ UNCHANGED <<platform, port_list, inp, prompted, port, serial_obj, poll_i,
                   setup_sleeps, gps_stream, file_exists, signal_source, announce_signal,
                   atexit_reg, db, s_unit, rows, fixes, i, spoken, scaleVars, fixVars,
                   decVars, dedupVars>>

\* save_read_to_file, lines 267-285: the row of one sample (the timestamp column,
\* the wall clock, is left out); a column left at "" is None
Row(signal_strength_db, signal_strength_s_unit, read) ==
    [signal_strength_db |-> signal_strength_db,
     signal_strength_s_unit |-> signal_strength_s_unit,
     latitude |-> IF read # None THEN Some(read[1].lat) ELSE None,
     longitude |-> IF read # None THEN Some(read[1].lng) ELSE None,
     elevation |-> IF read # None THEN Some(read[1].altitude) ELSE None]

\* (a variant that goes on to the announcement without the sleep of line 381)
Emit_without_sleep ==
    /\ status = "running" /\ pc = "emit"
    /\ rows' = Append(rows, Row(db, s_unit, gps_read))
    /\ fixes' = Append(fixes, gps_read)
    /\ pc' = "announce"
    /\ UNCHANGED <<status, err, exit_code, sdr, platform, port_list, inp, prompted, port,
                   serial_obj, poll_i, setup_sleeps, gps_stream, serial_reads, skipped,
                   gps_read, file_exists, signal_source, announce_signal, atexit_reg, db,
                   s_unit, i, spoken, scaleVars, fixVars, decVars, dedupVars>>
\* main, lines 378-379: save_read_to_file appends the row
Emit ==
    /\ status = "running" /\ pc = "emit"
    /\ rows' = Append(rows, Row(db, s_unit, gps_read))
    /\ fixes' = Append(fixes, gps_read)
    /\ pc' = "sleep"
    /\ UNCHANGED <<status, err, exit_code, sdr, platform, port_list, inp, prompted, port,
                   serial_obj, poll_i, setup_sleeps, gps_stream, serial_reads, skipped,
                   gps_read, file_exists, signal_source, announce_signal, atexit_reg, db,
                   s_unit, i, spoken, scaleVars, fixVars, decVars, dedupVars>>

\* main, line 381: time.sleep(SAMPLE_INTERVAL)
Sleep ==
    /\ status = "running" /\ pc = "sleep"
    /\ pc' = "announce"
    /\ UNCHANGED <<status, err, exit_code, sdr, platform, port_list, inp, prompted, port,
                   serial_obj, poll_i, setup_sleeps, gps_stream, serial_reads, skipped,
                   gps_read, file_exists, signal_source, announce_signal, atexit_reg, db,
                   s_unit, rows, fixes, i, spoken, scaleVars, fixVars, decVars, dedupVars>>

\* utils.get_platform_speak_func: a function for Darwin and Linux, else None
get_platform_speak_func(system) ==
    IF system = "Darwin" THEN "speak_darwin"
    ELSE IF system = "Linux" THEN "speak_linux"
    ELSE "None"

\* main, line 382: ANNOUNCE_SIGNAL and (i % ANNOUNCE_SIGNAL_EVERY == 0)
\* (a variant that waits until ANNOUNCE_SIGNAL_EVERY iterations have been made)
announce_due_after_n(enabled, iteration) ==
    enabled /\ ((iteration + 1) % ANNOUNCE_SIGNAL_EVERY = 0)
announce_due(enabled, iteration) ==
    enabled /\ (iteration % ANNOUNCE_SIGNAL_EVERY = 0)

\* main, lines 382-388: announce every ANNOUNCE_SIGNAL_EVERY-th iteration; i += 1
Announce ==
    /\ status = "running" /\ pc = "announce"
    /\ IF announce_due(announce_signal, i)
       THEN IF get_platform_speak_func(platform) = "None"
            THEN \* speak_func is None: calling it raises
                 /\ pc' = pc /\ i' = i /\ spoken' = spoken
                 /\ Crash("TypeError")
            ELSE \/ \* subprocess.Popen starts the speech command
                    /\ spoken' = Append(spoken, s_unit)
                    /\ pc' = "sample" /\ i' = i + 1
                    /\ Continue /\ sdr' = sdr
                 \/ \* subprocess.Popen does not find the command
                    /\ pc' = pc /\ i' = i /\ spoken' = spoken
                    /\ Crash("FileNotFoundError")
       ELSE /\ pc' = "sample" /\ i' = i + 1 /\ spoken' = spoken
            /\ Continue /\ sdr' = sdr
    /\ UNCHANGED <<platform, port_list, inp, prompted, port, serial_obj, poll_i,
                   setup_sleeps, gps_stream, serial_reads, skipped, gps_read, file_exists,
                   signal_source, announce_signal, atexit_reg, db, s_unit, rows, fixes,
                   scaleVars, fixVars, decVars, dedupVars>>

Next ==
    \/ SelectPort
    \/ PollStep
    \/ PollRead
    \/ InitOutputFile
    \/ Configure
    \/ Sample
    \/ NoPosition
    \/ TickRead
    \/ Emit
    \/ Sleep
    \/ Announce

Spec == Init /\ [][Next]_vars

(***************************************************************************)
(* The main loop on its own, followed for MaxLoopTicks iterations.  It     *)
(* starts where main() enters `while True` in a run that found no serial   *)
(* port: the RTL-SDR is open and set, sdr.close is registered, gps_stream  *)
(* is None.  ANNOUNCE_SIGNAL is either way.                                *)
(***************************************************************************)
LoopInit ==
    /\ ScaleIdle /\ FixIdle /\ DecIdle /\ DedupIdle
    /\ pc = "sample" /\ status = "running" /\ err = "none" /\ exit_code = -1
    /\ platform \in {"Darwin", "Linux", "Windows"}
    /\ announce_signal \in BOOLEAN
    /\ signal_source = "RTLSDR"
    /\ port_list = <<>> /\ inp = 0 /\ prompted = FALSE /\ port = None
    /\ serial_obj = None /\ poll_i = 0 /\ setup_sleeps = 0 /\ gps_stream = None
    /\ serial_reads = 0 /\ skipped = 0 /\ gps_read = None /\ file_exists = FALSE
    /\ sdr = "open" /\ atexit_reg = TRUE
    /\ db = Dec(0, 0) /\ s_unit = "" /\ rows = <<>> /\ fixes = <<>> /\ i = 0
    /\ spoken = <<>>

SampleLoop == SampleWithin(MaxLoopTicks)

LoopNext ==
    \/ SampleLoop
    \/ NoPosition
    \/ Emit
    \/ Sleep
    \/ Announce

SpecLoop == LoopInit /\ [][LoopNext]_vars

(***************************************************************************)
(* generate_map.py: the deduplication of the collected rows (lines 32-55). *)
(* Levels are whole dB.  A coordinate is a float64, in one of two forms:   *)
(*   Lit(u):  the float read from the CSV text of u * 1e-5 degrees (the    *)
(*            collector writes five decimals);                             *)
(*   Prod(q): the float q * DEDUPLICATION_STEP, as to_bin computes it.     *)
(* A row without a position (empty CSV fields, NaN in the frame) has None  *)
(* in both coordinates.  Steps are in 1e-5 degrees.                        *)
(***************************************************************************)
\* generate_map.py, line 33: "11-meter segments (4 decimal digits)", 0.0001 degrees
DEDUPLICATION_STEP == 10

MaxRecords == 3     \* rows of the frame that is deduplicated
MaxPasses == 2      \* deduplications applied one after the other

Lit(u) == [lit |-> TRUE, n |-> u]
Prod(q) == [lit |-> FALSE, n |-> q]
\* the number a coordinate stands for, in 1e-5 degrees
ValueOf(step, c) == IF c.lit THEN c.n ELSE c.n * step

MapRow(lat, lon, level) ==
    [latitude |-> lat, longitude |-> lon, signal_strength_db |-> level]
HasPosition(row) == row.latitude # None /\ row.longitude # None
Positioned(df) == {k \in 1..Len(df) : HasPosition(df[k])}

\* float64 division by the step, which is no binary fraction (0.0001, 0.0002): for
\* these whole multiples q of the step, among those with |q| <= 64, x / step comes out
\* just below q and np.floor gives q - 1.  LiteralShort: x is the float of the
\* decimal text (0.0003 / 0.0001 is 2.9999999999999996); ProductShort: x is the
\* float q * step (0.0049 / 0.0001 is 48.99999999999999).  The sets are the same
\* for 0.0001 and 0.0002, whose floats differ by the exact factor 2.
LiteralShort ==
    {3, 6, 12, 13, 21, 24, 26, 29, 31, 39, 42, 45, 48, 49, 52, 55, 58, 59, 62}
ProductShort == {-52, -42, -26, -21, -13, 49, 59}

\* lines 38-39: np.floor(x / DEDUPLICATION_STEP)
floor_quotient(step, c) ==
    IF c.lit
    THEN IF c.n % step = 0 /\ (c.n \div step) \in LiteralShort
         THEN (c.n \div step) - 1 ELSE c.n \div step
    ELSE IF c.n \in ProductShort THEN c.n - 1 ELSE c.n
\* lines 38-39: to_bin(x) = np.floor(x / DEDUPLICATION_STEP) * DEDUPLICATION_STEP
to_bin(step, c) == Prod(floor_quotient(step, c))

\* lines 40-41: the columns lat_bin and lon_bin (NaN stays NaN)
bin_columns(step, df) ==
    [k \in 1..Len(df) |->
        IF HasPosition(df[k])
        THEN Some(<<to_bin(step, df[k].latitude[1]), to_bin(step, df[k].longitude[1])>>)
        ELSE None]

\* line 42: df.groupby(["lat_bin", "lon_bin"]) drops the rows whose key is NaN and
\* yields the groups in the order of their keys
group_keys(bins) == {bins[k][1] : k \in {h \in 1..Len(bins) : bins[h] # None}}
KeyLess(a, b) == a[1].n < b[1].n \/ (a[1].n = b[1].n /\ a[2].n < b[2].n)
RECURSIVE sorted_keys(_)
sorted_keys(keys) ==
    IF keys = {} THEN <<>>
    ELSE LET first == CHOOSE m \in keys : \A o \in keys \ {m} : KeyLess(m, o)
         IN <<first>> \o sorted_keys(keys \ {first})

\* line 46: np.max(group[1].signal_strength_db)
group_max(df, bins, key) ==
    LET levels == {df[k].signal_strength_db : k \in {h \in 1..Len(df) : bins[h] = Some(key)}}
    IN CHOOSE m \in levels : \A l \in levels : l <= m

\* lines 43-53: one summary point for each group
summary_points(df, bins) ==
    LET keys == sorted_keys(group_keys(bins)) IN
    [j \in 1..Len(keys) |->
        MapRow(Some(keys[j][1]), Some(keys[j][2]), group_max(df, bins, keys[j]))]

\* the frames that are deduplicated
Steps == {DEDUPLICATION_STEP, 2 * DEDUPLICATION_STEP}
LatCoords == {25, 30, 497}
LonCoords == {-3, 0}
LevelSamples == {-50, -40}
MapRows ==
    {MapRow(Some(Lit(lat)), Some(Lit(lon)), level) :
        lat \in LatCoords, lon \in LonCoords, level \in LevelSamples}
    \cup {MapRow(None, None, -40)}
Frames == UNION {[1..n -> MapRows] : n \in 0..MaxRecords}

DedupInit ==
    /\ MainIdle /\ ScaleIdle /\ FixIdle /\ DecIdle
    /\ dd_step \in Steps
    /\ dd_df \in Frames
    /\ dd_bins = <<>> /\ dd_out = None /\ dd_pass = 0 /\ dd_err = "none"

\* generate_map.main, lines 32-55, applied to the frame, then to its own result
Dedupe ==
    /\ dd_pass < MaxPasses /\ dd_err = "none"
    /\ LET df == IF dd_pass = 0 THEN dd_df ELSE dd_out[1]
           bins == bin_columns(dd_step, df)
           out == summary_points(df, bins)
       IN /\ dd_df' = df /\ dd_bins' = bins /\ dd_out' = Some(out)
          \* line 55: df['latitude'] of a frame made from no summary point
          /\ dd_err' = IF Len(out) = 0 THEN "KeyError" ELSE "none"
    /\ dd_pass' = dd_pass + 1
    /\ UNCHANGED <<dd_step, mainVars, scaleVars, fixVars, decVars>>

DedupNext == Dedupe
SpecDedup == DedupInit /\ [][DedupNext]_vars

(***************************************************************************)
(* Properties of the deduplication.                                        *)
(***************************************************************************)
\* the bin of a positioned row: (floor(lat / s) * s, floor(lon / s) * s)
BinOf(step, row) ==
    <<(ValueOf(step, row.latitude[1]) \div step) * step,
      (ValueOf(step, row.longitude[1]) \div step) * step>>
\* where a row is placed
PlaceOf(step, row) == <<ValueOf(step, row.latitude[1]), ValueOf(step, row.longitude[1])>>
RowsOf(df) == {df[k] : k \in 1..Len(df)}

\* C16: a deduplication yields exactly one row for each occupied bin
\* (floor(lat/s)*s, floor(lon/s)*s), at the coordinates of the bin, with the largest
\* level of the rows of that bin; so it yields no more rows than it was given, and as
\* many exactly when every row it was given occupies a bin of its own.
C16_OneRowPerOccupiedBin ==
    dd_pass >= 1 =>
        LET out == dd_out[1]
            occupied == {BinOf(dd_step, dd_df[k]) : k \in Positioned(dd_df)}
        IN /\ \A j \in 1..Len(out) : HasPosition(out[j])
           /\ {PlaceOf(dd_step, out[j]) : j \in 1..Len(out)} = occupied
           /\ Len(out) = Cardinality(occupied)
           /\ \A j \in 1..Len(out) :
                 LET members == {k \in Positioned(dd_df) :
                                    BinOf(dd_step, dd_df[k]) = PlaceOf(dd_step, out[j])}
                 IN /\ \E k \in members :
                         dd_df[k].signal_strength_db = out[j].signal_strength_db
                    /\ \A k \in members :
                         dd_df[k].signal_strength_db <= out[j].signal_strength_db
           /\ Len(out) <= Len(dd_df)
           /\ Len(out) = Len(dd_df) <=>
                 /\ Positioned(dd_df) = 1..Len(dd_df)
                 /\ \A k, h \in 1..Len(dd_df) :
                       k # h => BinOf(dd_step, dd_df[k]) # BinOf(dd_step, dd_df[h])

\* C17: the deduplication is idempotent: applied to its own result it yields the
\* same set of rows.
C17_Idempotent == dd_pass = 2 => RowsOf(dd_out[1]) = RowsOf(dd_df)

(***************************************************************************)
(* Properties of the driver.                                               *)
(***************************************************************************)
InSetup == pc \in {"setup", "poll", "poll_read", "setup_returned"}

\* C1: the position columns of a row are filled only from a fix that is_valid_read
\* accepts; a fix that was not validated, or that fails the validation, leaves
\* them empty.
C1_OnlyValidFixesInRows ==
    \A k \in 1..Len(rows) :
        rows[k].latitude # None \/ rows[k].longitude # None \/ rows[k].elevation # None
            => (fixes[k] # None /\ is_valid_read(fixes[k][1]))

\* C7: a malformed GPGGA line (too few fields, or a text that is no number where a
\* number is expected) read by the main loop is skipped: it never ends the loop.
C7_MalformedLineIsSkipped ==
    ~(status = "crashed" /\ pc = "position" /\ err \in {"IndexError", "ValueError"})

\* set-up has ended without a positioning source
NoSource == ~InSetup /\ gps_stream = None
EmptyPosition(row) == row.latitude = None /\ row.longitude = None /\ row.elevation = None

\* C8: once set-up has ended without a positioning source, it stays that way: no
\* step reads the serial source, and every row written has empty position columns.
C8_PositioningStaysDisabled ==
    [][NoSource =>
        /\ NoSource'
        /\ serial_reads' = serial_reads
        /\ \A k \in 1..Len(rows') : EmptyPosition(rows'[k])]_vars
C8_Witness ==
    /\ NoSource /\ serial_obj # None
    /\ Len(rows) = MaxTicks
    /\ \A k \in 1..Len(rows) : EmptyPosition(rows[k])

\* the polling steps that have ended without a valid fix
FailedSteps ==
    IF pc = "poll_read" \/ (pc = "setup_returned" /\ gps_stream # None)
    THEN poll_i - 1 ELSE poll_i

\* C9: every polling step that does not observe a valid fix, a step that yields
\* "no fix" included, waits one second; set-up gives up after GPS_POLL_SEC of them.
C9_EveryFailedStepWaits ==
    (status = "running" /\ pc \in {"poll", "poll_read", "setup_returned"}) =>
        /\ setup_sleeps = FailedSteps
        /\ (pc = "setup_returned" /\ serial_obj # None /\ gps_stream = None)
              => setup_sleeps = GPS_POLL_SEC

\* C10: set-up opens only a port of the list: the one the operator typed when it
\* has prompted, which it does when several ports are listed and none names a GPS;
\* the only port, without prompting, when one port is listed.
C10_OpensChosenCandidate ==
    (status = "running" /\ pc \in {"poll", "poll_read", "setup_returned"}) =>
        /\ (Len(port_list) > 1 /\ GpsPorts(port_list) = {}) <=> prompted
        /\ serial_obj # None =>
              /\ serial_obj = port
              /\ serial_obj[1] \in DevicesOf(port_list)
              /\ prompted => serial_obj[1] = inp
              /\ Len(port_list) = 1 => (~prompted /\ serial_obj[1] = port_list[1].device)
C10_Witness ==
    /\ status = "running" /\ pc = "poll"
    /\ Len(port_list) = MaxPorts /\ GpsPorts(port_list) = {}
    /\ prompted /\ inp = 1 /\ serial_obj = Some(1)

\* the position columns of a row
PositionOf(row) == <<row.latitude, row.longitude, row.elevation>>
\* the read a row was written from is a fix that is_valid_read accepts
UsableFix(read) == read # None /\ is_valid_read(read[1])

\* C11: with positioning enabled, a row written on a tick whose read gave no usable
\* fix (None, or a fix that fails is_valid_read) carries the position of the row
\* before it, or an empty position when it is the first row.
C11_CarriesPreviousPosition ==
    gps_stream # None =>
        \A k \in 1..Len(rows) :
            ~UsableFix(fixes[k]) =>
                PositionOf(rows[k]) =
                    (IF k = 1 THEN <<None, None, None>> ELSE PositionOf(rows[k - 1]))

\* C13: with the LINE IN source the process ends at start-up with a non-zero exit
\* status, before a sample block is read and before a row is written.
C13_LineInExitsNonZero ==
    (signal_source = "LINE_IN" /\ status # "running" /\ pc = "configure") =>
        /\ (status = "exited" => exit_code # 0)
        /\ rows = <<>> /\ s_unit = ""

\* C14: once the RTL-SDR handle has been opened, no run ends (by sys.exit or by an
\* uncaught exception, one raised while the device is configured included) with
\* the handle still open.
C14_HandleReleasedAtEnd == status # "running" => sdr # "open"

\* C15: a speech backend that is missing (no speak function for the platform) or
\* fails to start (the speech command is not found) never ends the loop.
C15_SpeechFailureNeverHalts == ~(status = "crashed" /\ pc = "announce")

\* the announcements made before iteration `iteration`, when one is made every
\* `every` iterations and the first of them on iteration `first`
AnnouncementsBefore(iteration, first, every) ==
    IF iteration <= first THEN 0 ELSE (iteration - first - 1) \div every + 1

\* C12 (as stated): with announcements enabled the announcer is called when the
\* cadence counter has reached ANNOUNCE_SIGNAL_EVERY, so the first call comes after
\* ANNOUNCE_SIGNAL_EVERY iterations and the calls are ANNOUNCE_SIGNAL_EVERY iterations
\* apart; with announcements disabled it is never called.
C12_FirstAnnouncementAfterN ==
    Len(spoken) =
        (IF announce_signal
         THEN AnnouncementsBefore(i, ANNOUNCE_SIGNAL_EVERY - 1, ANNOUNCE_SIGNAL_EVERY)
         ELSE 0)

\* C12 (amended): with announcements enabled the announcer is called on exactly the
\* iterations whose index i, counted from 0, is a multiple of ANNOUNCE_SIGNAL_EVERY,
\* with the label of that iteration: the first call comes on the first iteration
\* and the calls are ANNOUNCE_SIGNAL_EVERY iterations apart.  With announcements
\* disabled it is never called.
C12_AnnouncesOnMultiplesOfN ==
    /\ Len(spoken) =
          (IF announce_signal THEN AnnouncementsBefore(i, 0, ANNOUNCE_SIGNAL_EVERY) ELSE 0)
    /\ \A k \in 1..Len(spoken) :
          spoken[k] = rows[(k - 1) * ANNOUNCE_SIGNAL_EVERY + 1].signal_strength_s_unit
C12_Witness ==
    /\ announce_signal /\ status = "running"
    /\ i = ANNOUNCE_SIGNAL_EVERY + 1 /\ Len(spoken) = 2
    /\ spoken[1] = rows[1].signal_strength_s_unit
    /\ spoken[2] = rows[ANNOUNCE_SIGNAL_EVERY + 1].signal_strength_s_unit
    /\ spoken[2] # rows[ANNOUNCE_SIGNAL_EVERY].signal_strength_s_unit

\* C18: a block of samples that is all zeros never puts a level that is no finite
\* number into a row.
C18_LevelIsFinite ==
    \A k \in 1..Len(rows) : ~IsNegInf(rows[k].signal_strength_db)

\* the steps of one iteration, in the order of the code
InLoop == pc \in {"sample", "position", "emit", "sleep", "announce"}
TickOrder ==
    { <<"sample", "position">>, <<"position", "emit">>, <<"emit", "sleep">>,
      <<"sleep", "announce">>, <<"announce", "sample">> }

\* C19 (as stated): a due announcement is made after the row is written and before
\* the sleep between iterations: when the sleep begins, the announcement of this
\* iteration has been made.
C19_AnnouncedBeforeSleep ==
    (status = "running" /\ pc = "sleep" /\ announce_due(announce_signal, i)) =>
        Len(spoken) = AnnouncementsBefore(i + 1, 0, ANNOUNCE_SIGNAL_EVERY)

\* C19 (amended): within every iteration the steps come in the order sampling and
\* classifying, positioning (if enabled), emitting, sleeping, announcing (if due),
\* and an iteration is complete before the sampling of the next begins: the level
\* and its label change only in the sampling step, the serial source is read only
\* in the positioning step, a row is written only in the emitting step, and an
\* announcement is made only after the row was written and the sleep was made.
C19_PhasesInOrder ==
    [][InLoop =>
        /\ pc' # pc => <<pc, pc'>> \in TickOrder
        /\ (db' # db \/ s_unit' # s_unit) =>
              (pc = "sample" /\ pc' = "position" /\ s_unit' = get_s_unit_from_db(db'))
        /\ serial_reads' # serial_reads => (pc = "position" /\ gps_stream # None)
        /\ gps_read' # gps_read => pc \in {"sample", "position"}
        /\ rows' # rows =>
              (pc = "emit" /\ pc' = "sleep" /\ rows' = Append(rows, Row(db, s_unit, gps_read)))
        /\ spoken' # spoken =>
              (pc = "announce" /\ pc' = "sample" /\ Len(rows) = i + 1
               /\ spoken' = Append(spoken, rows[i + 1].signal_strength_s_unit))
        /\ i' # i => (pc = "announce" /\ pc' = "sample" /\ i' = i + 1)]_vars
C19_Witness ==
    /\ status = "running" /\ pc = "position" /\ gps_stream # None
    /\ Len(rows) = 1 /\ i = 1 /\ Len(spoken) = 1
    /\ rows[1].latitude # None
    /\ spoken[1] = rows[1].signal_strength_s_unit

====
